---- MODULE Spec2Model ----
(***************************************************************************)
(* AgentManager (src/src/agent.ts): the agent execution loop, the approval *)
(* gate and the event stream of one AgentManager instance.                 *)
(*                                                                         *)
(* One action is one run-to-completion segment of the TypeScript code: the *)
(* statements between two awaits of generateResponse, or one whole public  *)
(* method that never suspends (approveToolCall, clearHistory, ...).        *)
(* The Runner of @openai/agents is the environment: it chooses the items   *)
(* of a stream and whether a stream ends, halts on interruptions or        *)
(* throws. After the abort of its signal a run delivers nothing more: it   *)
(* either throws or ends without interruptions.                            *)
(*                                                                         *)
(* Objects nothing refers to any more are dropped from the state: the      *)
(* locals of a settled call, the verdicts recorded on a run state that no  *)
(* call and no _interruptedState holds, an AbortController nobody holds.   *)
(***************************************************************************)
EXTENDS Integers, Sequences, FiniteSets, TLC

\* ---------------------------------------------------------------- bounds
MaxCalls == 2          \* generateResponse calls made by the callers
MaxRuns == 2           \* runner invocations in all (initial runs and resumes)
MaxItems == 2          \* stream items the runner delivers in all
MaxInterruptions == 2  \* interruptions of one halted result
MaxSettingsChanges == 1  \* changes of the settings after construction
MaxStreamItems == 4    \* stream items delivered in all, stream scenarios
MaxServers == 2        \* MCP servers the settings name
MaxModels == 3         \* chat models the registry holds

Calls == 1..MaxCalls

Null == 0              \* null / undefined

DEFAULT_MAX_TURNS == 25

\* The limit the runner applies when it is given no maxTurns option.
RunnerDefaultMaxTurns == 10

\* The settings as the manager reads them: whether _createModel can resolve
\* a provider, a model and a credential from them (valid), toolsEnabled, and
\* the maxTurns parameter of the active provider (Null: not set). `rev`
\* numbers the successive settings.
DefaultConfig ==
  [rev |-> 1, valid |-> TRUE, toolsEnabled |-> TRUE, maxTurns |-> Null]

\* What a change of the settings may set.
ConfigChoices ==
  {[valid |-> FALSE, toolsEnabled |-> TRUE, maxTurns |-> Null],
   [valid |-> TRUE, toolsEnabled |-> TRUE, maxTurns |-> 1],
   [valid |-> TRUE, toolsEnabled |-> FALSE, maxTurns |-> 1]}

\* The providers a manager can be given, the first being the settings'
\* defaultProvider; the tools of the tool registry; the MCP servers the
\* settings can name.
Providers == {"anthropic", "generic"}
DefaultProvider == "anthropic"
RegistryTools == <<"tool">>
ToolSelections == {RegistryTools, <<>>}

\* config.mcpServers: up to MaxServers servers, named 1, 2, ..., each
\* enabled or not.
McpSettings ==
  UNION {[1..n -> BOOLEAN] : n \in 0..MaxServers}
McpServers(flags) ==
  [i \in DOMAIN flags |-> [name |-> i, enabled |-> flags[i]]]

NoAgent == [config |-> Null]          \* this._agent === null

\* An Agent built (agent.ts 633-647) from the settings cfg, with the model of
\* `provider`, the tools `tools` and the MCP servers `servers`.
TheAgent(cfg, provider, tools, servers) ==
  [config |-> cfg.rev, provider |-> provider, tools |-> tools,
   mcpServers |-> servers]

VARIABLES
  history,           \* _history: the committed conversation items
  pendingApprovals,  \* _pendingApprovals: set of {id, interruption, groupId}
  interruptedState,  \* _interruptedState: NoResult or the halted result held
  controller,        \* _controller: Null or the current AbortController
  aborted,           \* the AbortControllers whose abort() has been called
  tokenUsage,        \* _tokenUsage
  agent,             \* _agent
  isInitializing,    \* _isInitializing
  agentEvent,        \* the events the last step emitted on _agentEvent
  verdicts,          \* the state.approve / state.reject calls applied
  calls,             \* the generateResponse calls: position and locals
  nextId,            \* source of fresh interruption and group ids
  runsMade,          \* runner invocations so far
  itemsDelivered,    \* stream items delivered so far
  config,            \* the current settings (_settingsModel)
  initConfig,        \* the settings the initialization in progress has read
  usageChanged,      \* what the last step emitted on _tokenUsageChanged
  activeProvider,    \* _activeProvider
  selectedToolNames, \* _selectedToolNames
  mcpServers,        \* _mcpServers of the manager
  initProvider,      \* the provider the initialization in progress has read
  factory,           \* the AgentManagerFactory the manager is registered with
  creation,          \* a call of a provider's factory: options and result
  validity,          \* a call of hasValidConfig: what it read and returned
  models,            \* the chat models of the registry, by their names
  command,           \* the moveChat command in progress, or the last one
  renamed,           \* the last renameChat call and what it returned
  reported           \* the tokenUsage option of the constructor (option),
                     \* the usage at construction or at the last
                     \* clearHistory (base) and the usage response_done
                     \* items have reported since (sum)

\* The variables of the operations outside the run loop, which the actions
\* of the run loop, of the factory and of the providers leave alone.
pluginVars == <<validity, models, command, renamed>>

vars == <<history, pendingApprovals, interruptedState, controller, aborted,
          tokenUsage, agent, isInitializing, agentEvent, verdicts, calls,
          nextId, runsMade, itemsDelivered, config, initConfig, usageChanged,
          activeProvider, selectedToolNames, mcpServers, initProvider,
          factory, creation, pluginVars, reported>>

\* ------------------------------------------------------------ data shapes
UserItem(c) == [kind |-> "user", call |-> c, run |-> Null]
RunItem(k, c, rid) == [kind |-> k, call |-> c, run |-> rid]

\* A StreamedRunResult: `state` is the RunState it runs on (a resumed run
\* keeps the state it is given), `signal` the AbortController whose signal it
\* was given, `input` and `produced` make up result.history, `interruptions`
\* is result.interruptions.length once the stream has ended.
\* `agent` is the agent and `maxTurns` the maxTurns option the runner was
\* given (Null: none).
NoRun == [id |-> Null, state |-> Null, signal |-> Null,
          input |-> <<>>, produced |-> <<>>, interruptions |-> 0,
          agent |-> NoAgent, maxTurns |-> Null]

\* The locals of a generateResponse call. `batch` holds the interruption ids
\* registered for the halted result the call waits on that no approve or
\* reject operation has resolved yet. `toolsEnabled` is config.toolsEnabled
\* of the config read at agent.ts 430, `maxTurns` the const of agent.ts 457.
IdleCall == [pc |-> "idle", run |-> NoRun, ownsInit |-> FALSE,
             currentMessageId |-> Null, fullResponse |-> <<>>,
             batch |-> {}, outcome |-> "none",
             toolsEnabled |-> FALSE, maxTurns |-> Null]

\* _interruptedState: the result held (its id and its state), or null.
NoResult == [id |-> Null, state |-> Null]

\* A settled call: its locals are gone, how it ended is kept.
Settled(outcome) == [IdleCall EXCEPT !.pc = "done", !.outcome = outcome]

InFlight(c) == calls[c].pc \in {"init", "stream", "wait"}

\* The AbortControllers whose signal can still be observed: the one held in
\* _controller and those of the runs whose stream is being consumed.
LiveSignals(cs, ctl) ==
  ({ctl} \cup {cs[c].run.signal : c \in {d \in Calls : cs[d].pc = "stream"}})
    \ {Null}

\* The run states a verdict can still be applied to or waited for: the state
\* of the result _interruptedState holds and those of the halted results
\* whose calls are waiting.
LiveStates(cs, held) ==
  ({cs[c].run.state : c \in {d \in Calls : cs[d].pc = "wait"}}
     \cup {held.state}) \ {Null}

KeepLive(vs, cs, held) == {v \in vs : v.state \in LiveStates(cs, held)}

\* The state after construction with the tokenUsage option `usage`
\* (agent.ts 288-291; none given: zero).
InitWith(usage) ==
  /\ history = <<>>
  /\ pendingApprovals = {}
  /\ interruptedState = NoResult
  /\ controller = Null
  /\ aborted = {}
  /\ tokenUsage = usage
  /\ agent = NoAgent
  /\ isInitializing = TRUE
  /\ agentEvent = <<>>
  /\ verdicts = {}
  /\ calls = [c \in Calls |-> IdleCall]
  /\ nextId = 1
  /\ runsMade = 0
  /\ itemsDelivered = 0
  /\ config = DefaultConfig
  /\ initConfig = DefaultConfig
  /\ usageChanged = <<>>
  /\ activeProvider = DefaultProvider
  /\ selectedToolNames = RegistryTools
  /\ mcpServers = <<>>
  /\ initProvider = DefaultProvider
  /\ reported = [option |-> usage, base |-> usage,
                 sum |-> [inputTokens |-> 0, outputTokens |-> 0]]

\* The enabled ones of the configured MCP servers, in configuration order
\* (agent.ts 93).
EnabledServers(configured) ==
  LET idx == {i \in DOMAIN configured : configured[i].enabled}
      f[n \in 0..Len(configured)] ==
        IF n = 0 THEN <<>>
        ELSE IF n \in idx THEN Append(f[n - 1], configured[n].name)
        ELSE f[n - 1]
  IN f[Len(configured)]

\* The factory after its constructor (agent.ts 37-51), the settings naming
\* the MCP servers `configured`: _initializeAgents has begun, there was no
\* server to close, and the first connect() is awaited. `outcome` records
\* how the connect() calls of the round in progress, or of the last round,
\* ended.
NewFactory(configured) ==
  [configured |-> configured, isInitializing |-> TRUE, pc |-> "connect",
   enabled |-> EnabledServers(configured), outcome |-> <<>>,
   mcpServers |-> <<>>]

\* An option that is not given (undefined), and the values JavaScript takes
\* for false in `!v` and `v || d`.
Absent == "<undefined>"
Falsy(v) == v \in {Absent, ""}

\* The IModelOptions a provider's factory is called with.
ProviderIds == {"sap", "anthropic", "google", "mistral", "openai", "generic"}
ModelOptions ==
  [provider : ProviderIds, apiKey : {Absent, "", "key"},
   model : {Absent, "m"}, baseURL : {Absent, "http://host"}]

\* No factory has been called.
NoCreation ==
  [options |-> [provider |-> DefaultProvider, apiKey |-> Absent,
                model |-> Absent, baseURL |-> Absent],
   result |-> [kind |-> "none"]]

\* hasValidConfig has not been called. `input` is what a call reads: the
\* configuration of the active provider (present or not), and whether the
\* manager has a provider registry.
NoValidity ==
  [input |-> [present |-> FALSE, provider |-> DefaultProvider,
              model |-> Absent, apiKey |-> Absent, hasRegistry |-> TRUE],
   called |-> FALSE, result |-> FALSE]

\* The name of a chat model: a text, with the number that tells names made
\* from the same text apart (0: the text as it is).
ChatName(text) == [text |-> text, n |-> 0]

\* No moveChat command has been executed, and no renameChat called.
NoCommand ==
  [pc |-> "idle", previousModel |-> Null, model |-> Null,
   timerFired |-> FALSE, result |-> FALSE]
NoRename == [called |-> FALSE, result |-> FALSE]

\* The plugin after activation: no chat model, no command.
InitPlugin ==
  /\ validity = NoValidity
  /\ models = <<>>
  /\ command = NoCommand
  /\ renamed = NoRename

Init ==
  /\ InitWith([inputTokens |-> 0, outputTokens |-> 0])
  /\ factory = NewFactory(<<>>)
  /\ creation = NoCreation
  /\ InitPlugin

\* The tokenUsage option of the constructor: absent, or a usage to start from.
InitialUsages ==
  {[inputTokens |-> 0, outputTokens |-> 0],
   [inputTokens |-> 5, outputTokens |-> 7]}

InitStream ==
  /\ \E usage \in InitialUsages : InitWith(usage)
  /\ factory = NewFactory(<<>>)
  /\ creation = NoCreation
  /\ InitPlugin

\* ------------------------------------------------------------ the runner
\* The output of a tool: a text, which may read like an error, or a value
\* that is not a string.
ToolOutputs ==
  {[text |-> TRUE, value |-> "ok"],
   [text |-> TRUE, value |-> "Error: failed"],
   [text |-> FALSE, value |-> "error"]}

\* The stream items _processRunResult has no branch for: a raw model event
\* of another data.type ("other"), a 'model' event that is no tool-call, a
\* run item event of another name, an event of another type.
UnrecognisedTypes ==
  {"other", "model_other", "run_item_other", "agent_updated_stream_event"}

\* What the runner may put on a stream (agent.ts 667-719 reads these shapes).
Deltas == {<<"a">>, <<"b">>, <<>>}     \* <<>>: delta absent or empty
Usages == {[inputTokens |-> 1, outputTokens |-> 2]}
StreamItems ==
  [type : {"response_started", "tool-call"} \cup UnrecognisedTypes]
    \cup [type : {"output_text_delta"}, delta : Deltas]
    \cup [type : {"response_done"}, usage : Usages]
    \cup [type : {"tool_output"},
          rawType : {"function_call_result", "computer_call_result"},
          status : {"completed", "incomplete"},
          output : ToolOutputs]

\* The stream items that decide the run loop: a message that starts and
\* completes, and the output of a tool.
CoreItems ==
  {[type |-> "response_started"],
   [type |-> "response_done", usage |-> [inputTokens |-> 1, outputTokens |-> 2]],
   [type |-> "tool_output", rawType |-> "function_call_result",
    status |-> "completed", output |-> [text |-> TRUE, value |-> "ok"]]}

\* runner.run(agent, input | state, {stream, signal, maxTurns}).
NewResult(rid, st, sig, inp, prod, ag, mt) ==
  [id |-> rid, state |-> st, signal |-> sig, input |-> inp, produced |-> prod,
   interruptions |-> 0, agent |-> ag, maxTurns |-> mt]

\* The turns a run has taken: the model responses it has completed.
Turns(run) ==
  Cardinality({i \in DOMAIN run.produced : run.produced[i].kind = "assistant"})

\* The turn limit the runner applies to a run.
TurnLimit(run) ==
  IF run.maxTurns = Null THEN RunnerDefaultMaxTurns ELSE run.maxTurns

\* result.history.
ResultHistory(run) == run.input \o run.produced

\* The items a run adds to its own history when it delivers `item`.
Produces(c, rid, item) ==
  CASE item.type = "response_done" -> <<RunItem("assistant", c, rid)>>
    [] item.type = "tool_output" -> <<RunItem("tool_result", c, rid)>>
    [] OTHER -> <<>>

\* ------------------------------------------------- generateResponse, parts
ErrorEvent(c, cause) ==
  [type |-> "error", call |-> c, error |-> [cause |-> cause, call |-> c]]

\* CatchFinally with a catch block that emits the event and throws the
\* error on to the caller.
CatchFinally_Rethrows(c, cause) ==
  /\ agentEvent' = <<ErrorEvent(c, cause)>>
  /\ controller' = Null
  /\ calls' = [calls EXCEPT ![c] = Settled("raised")]
  /\ aborted' = aborted \cap LiveSignals(calls', controller')
  /\ verdicts' = KeepLive(verdicts, calls', interruptedState)

\* CatchFinally with a catch block that swallows the error.
CatchFinally_Swallowed(c, cause) ==
  /\ agentEvent' = <<>>
  /\ controller' = Null
  /\ calls' = [calls EXCEPT ![c] = Settled("failed")]
  /\ aborted' = aborted \cap LiveSignals(calls', controller')
  /\ verdicts' = KeepLive(verdicts, calls', interruptedState)

\* catch + finally (agent.ts 502-509): one error event, the controller
\* dropped, the call settled.
CatchFinally(c, cause) ==
  /\ agentEvent' = <<ErrorEvent(c, cause)>>
  /\ controller' = Null
  /\ calls' = [calls EXCEPT ![c] = Settled("failed")]
  /\ aborted' = aborted \cap LiveSignals(calls', controller')
  /\ verdicts' = KeepLive(verdicts, calls', interruptedState)

\* agent.ts 443-448: config.toolsEnabled of the config read at line 430, and
\* the tools, the registry and the provider allow tool calling.
ShouldUseTools(toolsEnabled) == toolsEnabled /\ selectedToolNames # <<>>

\* agent.ts 454-458: the maxTurns parameter of the active provider, or the
\* default.
MaxTurnsOf(cfg) ==
  IF cfg.maxTurns = Null THEN DEFAULT_MAX_TURNS ELSE cfg.maxTurns

\* agent.ts 443-465: the user message is pushed, then the runner is invoked
\* with this._controller.signal (a TypeError when _controller is null), and
\* with maxTurns when tools are to be used.
BeginRun(c, ctl, toolsEnabled) ==
  /\ history' = Append(history, UserItem(c))
  /\ IF ctl = Null
       THEN /\ CatchFinally(c, "TypeError")
            /\ UNCHANGED runsMade
       ELSE /\ runsMade < MaxRuns
            /\ calls' = [calls EXCEPT
                 ![c].pc = "stream",
                 ![c].run = NewResult(runsMade + 1, runsMade + 1, ctl,
                                      history', <<>>, agent,
                                      IF ShouldUseTools(toolsEnabled)
                                        THEN MaxTurnsOf(config) ELSE Null),
                 ![c].toolsEnabled = toolsEnabled,
                 ![c].maxTurns = MaxTurnsOf(config),
                 ![c].ownsInit = FALSE,
                 ![c].currentMessageId = Null,
                 ![c].fullResponse = <<>>]
            /\ runsMade' = runsMade + 1
            /\ controller' = ctl
            /\ agentEvent' = <<>>
            /\ aborted' = aborted \cap LiveSignals(calls', controller')
            /\ UNCHANGED verdicts

\* agent.ts 429-441: a new AbortController; with no agent, initializeAgent()
\* is awaited (it returns at once when an initialization is in progress).
GenerateResponse(c) ==
  /\ calls[c].pc = "idle"
  /\ \A d \in Calls : d < c => calls[d].pc # "idle"
  /\ IF agent = NoAgent
       THEN /\ controller' = c
            /\ isInitializing' = TRUE
            /\ initConfig' = IF isInitializing THEN initConfig ELSE config
            /\ initProvider' =
                 IF isInitializing THEN initProvider ELSE activeProvider
            /\ calls' = [calls EXCEPT ![c].pc = "init",
                                      ![c].ownsInit = ~isInitializing,
                                      ![c].toolsEnabled = config.toolsEnabled]
            /\ agentEvent' = <<>>
            /\ aborted' = aborted \cap LiveSignals(calls', controller')
            /\ UNCHANGED <<history, verdicts, runsMade>>
       ELSE /\ BeginRun(c, c, config.toolsEnabled)
            /\ UNCHANGED <<isInitializing, initConfig, initProvider>>
  /\ usageChanged' = <<>>
  /\ UNCHANGED <<activeProvider, selectedToolNames, mcpServers, factory, creation, pluginVars>>
  /\ UNCHANGED <<pendingApprovals, interruptedState, tokenUsage, agent,
                 nextId, itemsDelivered, config, reported>>

\* agent.ts 439-441 after the awaited initializeAgent() has returned.
AfterInitialize(c) ==
  /\ calls[c].pc = "init"
  /\ ~calls[c].ownsInit
  /\ IF agent = NoAgent
       THEN /\ CatchFinally(c, "Failed to initialize agent")
            /\ UNCHANGED <<history, runsMade>>
       ELSE BeginRun(c, controller, calls[c].toolsEnabled)
  /\ usageChanged' = <<>>
  /\ UNCHANGED <<activeProvider, selectedToolNames, mcpServers, initProvider,
                 factory, creation, pluginVars>>
  /\ UNCHANGED <<pendingApprovals, interruptedState, tokenUsage, agent,
                 isInitializing, nextId, itemsDelivered, config, initConfig,
                 reported>>

\* agent.ts 600-607: initializeAgent called from outside generateResponse
\* (the activeProvider setter, setSelectedTools, the factory).
InitializeAgent ==
  /\ ~isInitializing
  /\ isInitializing' = TRUE
  /\ initConfig' = config
  /\ initProvider' = activeProvider
  /\ agentEvent' = <<>>
  /\ usageChanged' = <<>>
  /\ UNCHANGED <<activeProvider, selectedToolNames, mcpServers, factory, creation, pluginVars>>
  /\ UNCHANGED <<history, pendingApprovals, interruptedState, controller,
                 aborted, tokenUsage, agent, verdicts, calls, nextId,
                 runsMade, itemsDelivered, config, reported>>

\* agent.ts 614-653: _createModel resolves (ok) or throws, as it does when
\* the settings it read name no provider (874-882) or lack the credential
\* the provider's factory requires; then the finally block. The model is
\* that of the provider _createModel read when it was called; the tools and
\* the MCP servers are read after the await.
FinishInitialize(ok) ==
  /\ isInitializing
  /\ ok => initConfig.valid
  /\ agent' = IF ok
                THEN TheAgent(initConfig, initProvider,
                              IF ShouldUseTools(initConfig.toolsEnabled)
                                THEN selectedToolNames ELSE <<>>,
                              mcpServers)
                ELSE NoAgent
  /\ isInitializing' = FALSE
  /\ calls' = [c \in Calls |-> [calls[c] EXCEPT !.ownsInit = FALSE]]
  /\ agentEvent' = <<>>
  /\ usageChanged' = <<>>
  /\ UNCHANGED <<activeProvider, selectedToolNames, mcpServers, initProvider,
                 factory, creation, pluginVars>>
  /\ UNCHANGED <<history, pendingApprovals, interruptedState, controller,
                 aborted, tokenUsage, verdicts, nextId, runsMade,
                 itemsDelivered, config, initConfig, reported>>

\* agent.ts 600-613: the part of initializeAgent(mcpServers) that runs
\* before its first await: nothing when an initialization is in progress;
\* else the settings and the provider are read and the servers, when given,
\* are kept.
InitializeAgentCall(given, servers) ==
  IF isInitializing
    THEN UNCHANGED <<isInitializing, initConfig, initProvider, mcpServers>>
    ELSE /\ isInitializing' = TRUE
         /\ initConfig' = config
         /\ initProvider' = activeProvider
         /\ mcpServers' = IF given THEN servers ELSE mcpServers

\* agent.ts 337-341: the activeProvider setter.
SetActiveProvider(value) ==
  /\ activeProvider' = value
  /\ InitializeAgentCall(FALSE, <<>>)
  /\ agentEvent' = <<>>
  /\ usageChanged' = <<>>
  /\ UNCHANGED <<history, pendingApprovals, interruptedState, controller,
                 aborted, tokenUsage, agent, verdicts, calls, nextId,
                 runsMade, itemsDelivered, config, selectedToolNames,
                 factory, creation, pluginVars, reported>>

\* agent.ts 347-352: setSelectedTools.
SetSelectedTools(toolNames) ==
  /\ selectedToolNames' = toolNames
  /\ InitializeAgentCall(FALSE, <<>>)
  /\ agentEvent' = <<>>
  /\ usageChanged' = <<>>
  /\ UNCHANGED <<history, pendingApprovals, interruptedState, controller,
                 aborted, tokenUsage, agent, verdicts, calls, nextId,
                 runsMade, itemsDelivered, config, activeProvider,
                 factory, creation, pluginVars, reported>>

\* The MCP servers of the settings change: _onSettingsChanged (agent.ts
\* 81-85) calls _initializeAgents (135-141), which returns at once when the
\* factory is initializing; else _initializeMCPServers (91-103) reads the
\* enabled servers and awaits the close() of the first connected server or,
\* without one, the first connect().
McpSettingsChanged(configured) ==
  /\ factory' =
       IF factory.isInitializing
         THEN [factory EXCEPT !.configured = configured]
         ELSE [factory EXCEPT
                 !.configured = configured,
                 !.isInitializing = TRUE,
                 !.pc = IF factory.mcpServers # <<>> THEN "close"
                                                    ELSE "connect",
                 !.enabled = EnabledServers(configured),
                 !.outcome = <<>>]
  /\ agentEvent' = <<>>
  /\ usageChanged' = <<>>
  /\ UNCHANGED <<history, pendingApprovals, interruptedState, controller,
                 aborted, tokenUsage, agent, isInitializing, verdicts, calls,
                 nextId, runsMade, itemsDelivered, config, initConfig,
                 activeProvider, selectedToolNames, mcpServers, initProvider,
                 creation, pluginVars, reported>>

\* agent.ts 96-104: the connected servers have been closed (a close() that
\* throws is logged); the list is emptied.
CloseServers ==
  /\ factory.pc = "close"
  /\ factory' = [factory EXCEPT !.mcpServers = <<>>, !.pc = "connect"]
  /\ agentEvent' = <<>>
  /\ usageChanged' = <<>>
  /\ UNCHANGED <<history, pendingApprovals, interruptedState, controller,
                 aborted, tokenUsage, agent, isInitializing, verdicts, calls,
                 nextId, runsMade, itemsDelivered, config, initConfig,
                 activeProvider, selectedToolNames, mcpServers, initProvider,
                 creation, pluginVars, reported>>

\* agent.ts 107-121: the connect() of the next enabled server resolves (ok)
\* and the server is pushed, or throws and the failure is logged.
ConnectServer(ok) ==
  /\ factory.pc = "connect"
  /\ Len(factory.outcome) < Len(factory.enabled)
  /\ factory' =
       [factory EXCEPT
          !.outcome = Append(@, ok),
          !.mcpServers =
            IF ok THEN Append(@, factory.enabled[Len(factory.outcome) + 1])
                  ELSE @]
  /\ agentEvent' = <<>>
  /\ usageChanged' = <<>>
  /\ UNCHANGED <<history, pendingApprovals, interruptedState, controller,
                 aborted, tokenUsage, agent, isInitializing, verdicts, calls,
                 nextId, runsMade, itemsDelivered, config, initConfig,
                 activeProvider, selectedToolNames, mcpServers, initProvider,
                 creation, pluginVars, reported>>

\* agent.ts 123-152: every enabled server has been tried;
\* manager.initializeAgent(mcpServers) is called, not awaited, and the
\* factory is idle again.
FinishInitializeAgents ==
  /\ factory.pc = "connect"
  /\ Len(factory.outcome) = Len(factory.enabled)
  /\ InitializeAgentCall(TRUE, factory.mcpServers)
  /\ factory' = [factory EXCEPT !.isInitializing = FALSE, !.pc = "idle"]
  /\ agentEvent' = <<>>
  /\ usageChanged' = <<>>
  /\ UNCHANGED <<history, pendingApprovals, interruptedState, controller,
                 aborted, tokenUsage, agent, verdicts, calls, nextId,
                 runsMade, itemsDelivered, config, activeProvider,
                 selectedToolNames, creation, pluginVars, reported>>

\* ------------------------------------------------------------ the providers
\* apiKeyRequirement of the built-in providers (agent.ts 1015, 1086, 1129,
\* 1181, 1221, 1281).
ApiKeyRequirement(provider) ==
  IF provider = "generic" THEN "optional" ELSE "required"

\* A language model handle, and the error a factory throws.
ModelHandle(name, model, apiKey, baseURL) ==
  [kind |-> "model", provider |-> name, model |-> model, apiKey |-> apiKey,
   baseURL |-> baseURL]
FactoryError(message) == [kind |-> "error", message |-> message]

\* `v || d` and `v ?? d`.
OrElse(v, d) == IF Falsy(v) THEN d ELSE v
Coalesce(v, d) == IF v = Absent THEN d ELSE v

\* The factory of each built-in provider (agent.ts 1063-1076, 1106-1120,
\* 1162-1172, 1202-1212, 1261-1272, 1297-1307).
ProviderFactory(options) ==
  CASE options.provider = "sap" ->
         ModelHandle("sap", OrElse(options.model, "gpt-4o"),
                     OrElse(options.apiKey, ""), OrElse(options.baseURL, ""))
    [] options.provider = "anthropic" ->
         IF Falsy(options.apiKey)
           THEN FactoryError("API key required for Anthropic")
           ELSE ModelHandle("anthropic", Coalesce(options.model, ""),
                            options.apiKey, options.baseURL)
    [] options.provider = "google" ->
         IF Falsy(options.apiKey)
           THEN FactoryError("API key required for Google Generative AI")
           ELSE ModelHandle("google",
                            OrElse(options.model, "gemini-2.5-flash"),
                            options.apiKey, options.baseURL)
    [] options.provider = "mistral" ->
         IF Falsy(options.apiKey)
           THEN FactoryError("API key required for Mistral")
           ELSE ModelHandle("mistral",
                            OrElse(options.model, "mistral-large-latest"),
                            options.apiKey, options.baseURL)
    [] options.provider = "openai" ->
         IF Falsy(options.apiKey)
           THEN FactoryError("API key required for OpenAI")
           ELSE ModelHandle("openai", OrElse(options.model, "gpt-4o"),
                            options.apiKey, options.baseURL)
    [] options.provider = "generic" ->
         ModelHandle("generic", OrElse(options.model, "gpt-4o"),
                     OrElse(options.apiKey, "dummy"),
                     Coalesce(options.baseURL, ""))

\* The factory of the provider the options name is called.
CreateModel ==
  /\ creation.result.kind = "none"
  /\ creation' = [creation EXCEPT !.result = ProviderFactory(creation.options)]
  /\ agentEvent' = <<>>
  /\ usageChanged' = <<>>
  /\ UNCHANGED <<history, pendingApprovals, interruptedState, controller,
                 aborted, tokenUsage, agent, isInitializing, verdicts, calls,
                 nextId, runsMade, itemsDelivered, config, initConfig,
                 activeProvider, selectedToolNames, mcpServers, initProvider,
                 factory, pluginVars, reported>>

\* ---------------------------------------------------------- hasValidConfig
\* The provider ids a configuration can name: the registered ones and one
\* the registry does not know (getProviderInfo returns undefined).
ConfiguredProviderIds == ProviderIds \cup {"unknown"}

\* What a hasValidConfig call can read.
ValidityInputs ==
  {NoValidity.input} \cup
  [present : {TRUE}, provider : ConfiguredProviderIds,
   model : {Absent, "", "m"}, apiKey : {Absent, "", "key"},
   hasRegistry : BOOLEAN]

\* HasValidConfig asking for a key whatever the provider requires.
HasValidConfig_KeyForAll(input) ==
  IF ~input.present THEN FALSE
  ELSE IF Falsy(input.model) THEN FALSE
  ELSE IF input.hasRegistry THEN ~Falsy(input.apiKey)
  ELSE TRUE

\* agent.ts 379-401: hasValidConfig.
HasValidConfig(input) ==
  IF ~input.present THEN FALSE
  ELSE IF Falsy(input.model) THEN FALSE
  ELSE IF /\ input.hasRegistry
          /\ input.provider \in ProviderIds
          /\ ApiKeyRequirement(input.provider) = "required"
         THEN ~Falsy(input.apiKey)
  ELSE TRUE

\* hasValidConfig is called.
HasValidConfigCall ==
  /\ ~validity.called
  /\ validity' = [validity EXCEPT !.called = TRUE,
                                  !.result = HasValidConfig(validity.input)]
  /\ agentEvent' = <<>>
  /\ usageChanged' = <<>>
  /\ UNCHANGED <<history, pendingApprovals, interruptedState, controller,
                 aborted, tokenUsage, agent, isInitializing, verdicts, calls,
                 nextId, runsMade, itemsDelivered, config, initConfig,
                 activeProvider, selectedToolNames, mcpServers, initProvider,
                 factory, creation, models, command, renamed, reported>>

\* ------------------------------------------------------- the chat models
\* The names the callers give to chats; the empty one is no name.
ChatNames == {ChatName("a"), ChatName("b")}
NoChatName == ChatName("")

\* modelRegistry.get(name): the registered model of that name (its place in
\* the registry), or none.
RegistryGet(name) ==
  IF \E i \in DOMAIN models : models[i] = name
    THEN CHOOSE i \in DOMAIN models :
           /\ models[i] = name
           /\ \A j \in DOMAIN models : models[j] = name => i <= j
    ELSE Null

\* A name made from `text` that no model of `registered` has.
UnusedName(registered, text) ==
  LET used == {registered[i] : i \in DOMAIN registered}
      n == CHOOSE k \in 1..(Len(registered) + 1) :
             /\ [text |-> text, n |-> k] \notin used
             /\ \A j \in 1..(k - 1) : [text |-> text, n |-> j] \in used
  IN [text |-> text, n |-> n]

\* modelRegistry.createModel(name): the new model is registered under the
\* name when no model has it, else under a name made from it.
RegistryCreateModel(registered, name) ==
  Append(registered,
         IF name # NoChatName /\ \A i \in DOMAIN registered : registered[i] # name
           THEN name
           ELSE UnusedName(registered, IF name = NoChatName THEN "chat"
                                                            ELSE name.text))

\* index.ts 299-302: the createModel callback of the chat panel.
CreateChat(name) ==
  /\ Len(models) < MaxModels
  /\ models' = RegistryCreateModel(models, name)
  /\ agentEvent' = <<>>
  /\ usageChanged' = <<>>
  /\ UNCHANGED <<history, pendingApprovals, interruptedState, controller,
                 aborted, tokenUsage, agent, isInitializing, verdicts, calls,
                 nextId, runsMade, itemsDelivered, config, initConfig,
                 activeProvider, selectedToolNames, mcpServers, initProvider,
                 factory, creation, validity, command, renamed, reported>>

\* RenameChat renaming whenever the model of the old name exists.
RenameChat_NoCheck(oldName, newName) ==
  LET model == RegistryGet(oldName) IN
  /\ IF model # Null
       THEN /\ models' = [models EXCEPT ![model] = newName]
            /\ renamed' = [called |-> TRUE, result |-> TRUE]
       ELSE /\ models' = models
            /\ renamed' = [called |-> TRUE, result |-> FALSE]
  /\ agentEvent' = <<>>
  /\ usageChanged' = <<>>
  /\ UNCHANGED <<history, pendingApprovals, interruptedState, controller,
                 aborted, tokenUsage, agent, isInitializing, verdicts, calls,
                 nextId, runsMade, itemsDelivered, config, initConfig,
                 activeProvider, selectedToolNames, mcpServers, initProvider,
                 factory, creation, validity, command, reported>>

\* index.ts 303-311: the renameChat callback of the chat panel.
RenameChat(oldName, newName) ==
  LET model == RegistryGet(oldName)
      concurrencyModel == RegistryGet(newName)
  IN
  /\ IF model # Null /\ concurrencyModel = Null
       THEN /\ models' = [models EXCEPT ![model] = newName]
            /\ renamed' = [called |-> TRUE, result |-> TRUE]
       ELSE /\ models' = models
            /\ renamed' = [called |-> TRUE, result |-> FALSE]
  /\ agentEvent' = <<>>
  /\ usageChanged' = <<>>
  /\ UNCHANGED <<history, pendingApprovals, interruptedState, controller,
                 aborted, tokenUsage, agent, isInitializing, verdicts, calls,
                 nextId, runsMade, itemsDelivered, config, initConfig,
                 activeProvider, selectedToolNames, mcpServers, initProvider,
                 factory, creation, validity, command, reported>>

\* The command has returned `result`.
Returned(result) ==
  [pc |-> "done", previousModel |-> Null, model |-> Null,
   timerFired |-> FALSE, result |-> result]

\* index.ts 562-614: the moveChat command up to its await. Without a valid
\* area, a name and a model of that name it returns false; else the
\* listener is connected, the previous model takes a UUID for its name, the
\* new model is created under the name, and the command waits for the
\* first of the tracker's update and the timer to settle.
MoveChat(area, name) ==
  LET previousModel == RegistryGet(name) IN
  /\ command.pc # "waiting"
  /\ IF area \notin {"side", "main"} \/ name = NoChatName
          \/ previousModel = Null
       THEN /\ command' = Returned(FALSE)
            /\ models' = models
       ELSE /\ Len(models) < MaxModels
            /\ models' =
                 RegistryCreateModel(
                   [models EXCEPT ![previousModel] = UnusedName(models, "uuid")],
                   name)
            /\ command' = [pc |-> "waiting", previousModel |-> previousModel,
                           model |-> Len(models) + 1, timerFired |-> FALSE,
                           result |-> FALSE]
  /\ agentEvent' = <<>>
  /\ usageChanged' = <<>>
  /\ UNCHANGED <<history, pendingApprovals, interruptedState, controller,
                 aborted, tokenUsage, agent, isInitializing, verdicts, calls,
                 nextId, runsMade, itemsDelivered, config, initConfig,
                 activeProvider, selectedToolNames, mcpServers, initProvider,
                 factory, creation, validity, renamed, reported>>

\* tracker.widgetUpdated is emitted for the widget of model `m`: the
\* listener of a waiting command resolves trackerUpdated when the model is
\* the previous one (index.ts 587-591), the await ends with true, the
\* listener is disconnected, the chat is opened and the command returns
\* true (617-637).
WidgetUpdated(m) ==
  /\ m \in DOMAIN models
  /\ command' = IF command.pc = "waiting" /\ m = command.previousModel
                  THEN Returned(TRUE)
                  ELSE command
  /\ agentEvent' = <<>>
  /\ usageChanged' = <<>>
  /\ UNCHANGED <<history, pendingApprovals, interruptedState, controller,
                 aborted, tokenUsage, agent, isInitializing, verdicts, calls,
                 nextId, runsMade, itemsDelivered, config, initConfig,
                 activeProvider, selectedToolNames, mcpServers, initProvider,
                 factory, creation, validity, models, renamed, reported>>

\* index.ts 611-615: the timer of 2000 ms fires. Its callback returns false
\* and does not call the resolve function of its promise, so the promise
\* stays pending and the await goes on.
MoveChatTimer ==
  /\ command.pc = "waiting"
  /\ ~command.timerFired
  /\ command' = [command EXCEPT !.timerFired = TRUE]
  /\ agentEvent' = <<>>
  /\ usageChanged' = <<>>
  /\ UNCHANGED <<history, pendingApprovals, interruptedState, controller,
                 aborted, tokenUsage, agent, isInitializing, verdicts, calls,
                 nextId, runsMade, itemsDelivered, config, initConfig,
                 activeProvider, selectedToolNames, mcpServers, initProvider,
                 factory, creation, validity, models, renamed, reported>>

\* The settings change (settingsModel.stateChanged).
SettingsChanged(choice) ==
  /\ config.rev <= MaxSettingsChanges
  /\ config' = [rev |-> config.rev + 1, valid |-> choice.valid,
                toolsEnabled |-> choice.toolsEnabled,
                maxTurns |-> choice.maxTurns]
  /\ agentEvent' = <<>>
  /\ usageChanged' = <<>>
  /\ UNCHANGED <<activeProvider, selectedToolNames, mcpServers, initProvider,
                 factory, creation, pluginVars>>
  /\ UNCHANGED <<history, pendingApprovals, interruptedState, controller,
                 aborted, tokenUsage, agent, isInitializing, verdicts, calls,
                 nextId, runsMade, itemsDelivered, initConfig, reported>>

\* ------------------------------------------------------ _processRunResult
\* agent.ts 765-768: a string output as it is, any other JSON.stringify'ed.
ResultText(output) ==
  IF output.text THEN output.value ELSE "{\"" \o output.value \o "\": true}"

\* HandleToolOutput flagging an error whenever the status is 'incomplete'.
HandleToolOutput_AnyIncomplete(c, item) ==
  [type |-> "tool_call_complete", call |-> c,
   toolName |-> IF item.rawType = "function_call_result"
                  THEN "tool" ELSE "Unknown Tool",
   output |-> ResultText(item.output),
   isError |-> (item.status = "incomplete")]

\* agent.ts 761-788: tool_call_complete for a tool_output item.
HandleToolOutput(c, item) ==
  [type |-> "tool_call_complete", call |-> c,
   toolName |-> IF item.rawType = "function_call_result"
                  THEN "tool" ELSE "Unknown Tool",
   output |-> ResultText(item.output),
   isError |-> (item.rawType = "function_call_result"
                /\ item.status = "incomplete")]

\* agent.ts 742-755: tool_call_start for a model tool-call event.
HandleToolCallStart(c) == [type |-> "tool_call_start", call |-> c]

\* FreshMessageId made of the clock alone: two messages started in the same
\* tick get the same id.
FreshMessageId_ClockOnly == 1 + (itemsDelivered \div 2)

\* agent.ts 672: `msg-${Date.now()}-${Math.random()}`, an id no message had
\* before (every message start is a delivered item).
FreshMessageId == itemsDelivered + 1

\* AddUsage replacing the counters by the reported tokens.
AddUsage_Replaces(total, usage) == usage

\* agent.ts 705-706: the reported tokens are added to the counters.
AddUsage(total, usage) ==
  [inputTokens |-> total.inputTokens + usage.inputTokens,
   outputTokens |-> total.outputTokens + usage.outputTokens]

\* MessageChunk reporting the delta alone as fullContent.
MessageChunk_DeltaOnly(c, mid, full, delta) ==
  [type |-> "message_chunk", call |-> c, messageId |-> mid,
   chunk |-> delta, fullContent |-> delta]

\* agent.ts 680-689: the message_chunk event for a delta, `full` being the
\* buffer before it.
MessageChunk(c, mid, full, delta) ==
  [type |-> "message_chunk", call |-> c, messageId |-> mid,
   chunk |-> delta, fullContent |-> full \o delta]

\* ItemKind taking every 'model' event for a tool-call.
ItemKind_EveryModelEvent(item) ==
  IF item.type \in {"response_started", "output_text_delta", "response_done",
                    "tool-call", "tool_output"}
    THEN item.type
    ELSE IF item.type = "model_other" THEN "tool-call" ELSE "ignored"

\* agent.ts 668-718: the branch of the if / else-if chain an item takes.
ItemKind(item) ==
  IF item.type \in {"response_started", "output_text_delta", "response_done",
                    "tool-call", "tool_output"}
    THEN item.type
    ELSE "ignored"

\* agent.ts 667-719: one iteration of the for-await loop, on `item`; the
\* runner delivers at most `max` items in all, none after the abort of the
\* run's signal, and starts no model response beyond the run's turn limit.
StreamEventWithin(c, item, max) ==
  LET run == calls[c].run
      mid == calls[c].currentMessageId
      full == calls[c].fullResponse
      grown == [calls EXCEPT
                  ![c].run.produced = @ \o Produces(c, run.id, item)]
  IN
  /\ calls[c].pc = "stream"
  /\ itemsDelivered < max
  /\ run.signal \notin aborted
  /\ run.agent # NoAgent
  /\ item.type \in {"response_started", "response_done"} =>
       Turns(run) < TurnLimit(run)
  /\ itemsDelivered' = itemsDelivered + 1
  /\ CASE ItemKind(item) = "response_started" ->
            /\ calls' = [grown EXCEPT ![c].currentMessageId = FreshMessageId,
                                      ![c].fullResponse = <<>>]
            /\ agentEvent' = <<[type |-> "message_start", call |-> c,
                                messageId |-> FreshMessageId]>>
            /\ usageChanged' = <<>>
            /\ UNCHANGED <<tokenUsage, reported>>
       [] ItemKind(item) = "output_text_delta" ->
            /\ IF mid # Null
                 THEN /\ calls' = [grown EXCEPT
                                     ![c].fullResponse = full \o item.delta]
                      /\ agentEvent' =
                           <<MessageChunk(c, mid, full, item.delta)>>
                 ELSE /\ calls' = grown
                      /\ agentEvent' = <<>>
            /\ usageChanged' = <<>>
            /\ UNCHANGED <<tokenUsage, reported>>
       [] ItemKind(item) = "response_done" ->
            /\ IF mid # Null
                 THEN /\ agentEvent' =
                           <<[type |-> "message_complete", call |-> c,
                              messageId |-> mid, content |-> full]>>
                      /\ calls' = [grown EXCEPT ![c].currentMessageId = Null]
                 ELSE /\ calls' = grown
                      /\ agentEvent' = <<>>
            /\ tokenUsage' = AddUsage(tokenUsage, item.usage)
            /\ usageChanged' = <<tokenUsage'>>
            /\ reported' = [reported EXCEPT
                              !.sum.inputTokens = @ + item.usage.inputTokens,
                              !.sum.outputTokens = @ + item.usage.outputTokens]
       [] ItemKind(item) = "tool-call" ->
            /\ agentEvent' = <<HandleToolCallStart(c)>>
            /\ calls' = grown
            /\ usageChanged' = <<>>
            /\ UNCHANGED <<tokenUsage, reported>>
       [] ItemKind(item) = "tool_output" ->
            /\ agentEvent' = <<HandleToolOutput(c, item)>>
            /\ calls' = grown
            /\ usageChanged' = <<>>
            /\ UNCHANGED <<tokenUsage, reported>>
       [] OTHER ->
            /\ agentEvent' = <<>>
            /\ calls' = grown
            /\ usageChanged' = <<>>
            /\ UNCHANGED <<tokenUsage, reported>>
  /\ UNCHANGED <<activeProvider, selectedToolNames, mcpServers, initProvider,
                 factory, creation, pluginVars>>
  /\ UNCHANGED <<history, pendingApprovals, interruptedState, controller,
                 aborted, agent, isInitializing, verdicts, nextId, runsMade,
                 config, initConfig>>

\* The same, within the bound of the run-loop scenarios.
StreamEvent(c, item) == StreamEventWithin(c, item, MaxItems)

\* The awaited runner.run or the stream iteration throws (agent.ts 461-467,
\* 488-494), caught at 502.
StreamThrows(c) ==
  /\ calls[c].pc = "stream"
  /\ CatchFinally(c, "stream")
  /\ usageChanged' = <<>>
  /\ UNCHANGED <<activeProvider, selectedToolNames, mcpServers, initProvider,
                 factory, creation, pluginVars>>
  /\ UNCHANGED <<history, pendingApprovals, interruptedState, tokenUsage,
                 agent, isInitializing, nextId, runsMade, itemsDelivered,
                 config, initConfig, reported>>

\* The runner throws MaxTurnsExceededError: the run has used the turns of
\* its limit and needs another one. Caught at agent.ts 502.
TurnLimitThrows(c) ==
  /\ calls[c].pc = "stream"
  /\ calls[c].run.agent # NoAgent
  /\ Turns(calls[c].run) >= TurnLimit(calls[c].run)
  /\ CatchFinally(c, "MaxTurnsExceeded")
  /\ usageChanged' = <<>>
  /\ UNCHANGED <<activeProvider, selectedToolNames, mcpServers, initProvider,
                 factory, creation, pluginVars>>
  /\ UNCHANGED <<history, pendingApprovals, interruptedState, tokenUsage,
                 agent, isInitializing, nextId, runsMade, itemsDelivered,
                 config, initConfig, reported>>

\* ------------------------------------------------------- approval requests
Interruption(rid, i) == [run |-> rid, idx |-> i]

\* agent.ts 794-816: one pending record without a group, one event.
HandleSingleToolApproval(c, rid) ==
  /\ pendingApprovals' = pendingApprovals \cup
       {[id |-> nextId, interruption |-> Interruption(rid, 1), groupId |-> Null]}
  /\ agentEvent' = <<[type |-> "tool_approval_required", call |-> c,
                      interruptionId |-> nextId]>>
  /\ nextId' = nextId + 1

\* HandleGroupedToolApprovals registering the records without the group id.
HandleGroupedToolApprovals_Untagged(c, rid, k) ==
  /\ pendingApprovals' = pendingApprovals \cup
       {[id |-> nextId + i, interruption |-> Interruption(rid, i),
         groupId |-> Null] : i \in 1..k}
  /\ agentEvent' = <<[type |-> "grouped_approval_required", call |-> c,
                      groupId |-> nextId,
                      approvals |-> [i \in 1..k |->
                                       [interruptionId |-> nextId + i]]]>>
  /\ nextId' = nextId + k + 1

\* agent.ts 822-847: a group id, one pending record per interruption tagged
\* with it, one event listing them all.
HandleGroupedToolApprovals(c, rid, k) ==
  /\ pendingApprovals' = pendingApprovals \cup
       {[id |-> nextId + i, interruption |-> Interruption(rid, i),
         groupId |-> nextId] : i \in 1..k}
  /\ agentEvent' = <<[type |-> "grouped_approval_required", call |-> c,
                      groupId |-> nextId,
                      approvals |-> [i \in 1..k |->
                                       [interruptionId |-> nextId + i]]]>>
  /\ nextId' = nextId + k + 1

\* agent.ts 499-501 and 507-509: no interruption; result.history is
\* committed and the call settles.
Complete(c) ==
  /\ interruptedState' = NoResult
  /\ history' = ResultHistory(calls[c].run)
  /\ controller' = Null
  /\ calls' = [calls EXCEPT ![c] = Settled("completed")]
  /\ agentEvent' = <<>>
  /\ aborted' = aborted \cap LiveSignals(calls', controller')
  /\ verdicts' = KeepLive(verdicts, calls', interruptedState')
  /\ UNCHANGED <<pendingApprovals, nextId>>

\* agent.ts 472-485: the halted result is held, approval is asked for, and
\* the wait for an empty pending set begins.
Suspend(c, k) ==
  LET run == calls[c].run IN
  /\ interruptedState' = [id |-> run.id, state |-> run.state]
  /\ IF k > 1 THEN HandleGroupedToolApprovals(c, run.id, k)
              ELSE HandleSingleToolApproval(c, run.id)
  /\ calls' = [calls EXCEPT
       ![c].pc = "wait",
       ![c].run.interruptions = k,
       ![c].currentMessageId = Null,
       ![c].fullResponse = <<>>,
       ![c].batch = {p.id : p \in pendingApprovals' \ pendingApprovals}]
  /\ verdicts' = KeepLive(verdicts, calls', interruptedState')
  /\ aborted' = aborted \cap LiveSignals(calls', controller)
  /\ UNCHANGED <<history, controller>>

\* agent.ts 469-470, 495-496: the stream has ended with k interruptions.
StreamEnds(c, k) ==
  /\ calls[c].pc = "stream"
  /\ k > 0 => calls[c].run.signal \notin aborted
  /\ calls[c].run.agent # NoAgent
  /\ IF k = 0 THEN Complete(c) ELSE Suspend(c, k)
  /\ usageChanged' = <<>>
  /\ UNCHANGED <<activeProvider, selectedToolNames, mcpServers, initProvider,
                 factory, creation, pluginVars>>
  /\ UNCHANGED <<tokenUsage, agent, isInitializing, runsMade, itemsDelivered,
                 config, initConfig, reported>>

\* agent.ts 487-492: the runner is invoked on result.state with
\* this._controller.signal (a TypeError when _controller is null).
Resume(c) ==
  LET run == calls[c].run IN
  IF controller = Null
    THEN /\ CatchFinally(c, "TypeError")
         /\ UNCHANGED runsMade
    ELSE /\ runsMade < MaxRuns
         /\ calls' = [calls EXCEPT
              ![c].pc = "stream",
              ![c].run = NewResult(runsMade + 1, run.state, controller,
                                   run.input, run.produced, agent,
                                   calls[c].maxTurns),
              ![c].batch = {}]
         /\ runsMade' = runsMade + 1
         /\ agentEvent' = <<>>
         /\ aborted' = aborted \cap LiveSignals(calls', controller)
         /\ verdicts' = KeepLive(verdicts, calls', interruptedState)
         /\ UNCHANGED controller

\* Poll ending the wait whatever is pending.
Poll_IgnoresPending(c) ==
  /\ calls[c].pc = "wait"
  /\ Resume(c)
  /\ usageChanged' = <<>>
  /\ UNCHANGED <<activeProvider, selectedToolNames, mcpServers, initProvider,
                 factory, creation, pluginVars>>
  /\ UNCHANGED <<history, pendingApprovals, interruptedState, tokenUsage,
                 agent, isInitializing, nextId, itemsDelivered, config,
                 initConfig, reported>>

\* agent.ts 483-485: one tick of the 100 ms poll. Nothing happens while the
\* pending set is non-empty.
Poll(c) ==
  /\ calls[c].pc = "wait"
  /\ IF pendingApprovals # {}
       THEN /\ agentEvent' = <<>>
            /\ UNCHANGED <<controller, aborted, verdicts, calls, runsMade>>
       ELSE Resume(c)
  /\ usageChanged' = <<>>
  /\ UNCHANGED <<activeProvider, selectedToolNames, mcpServers, initProvider,
                 factory, creation, pluginVars>>
  /\ UNCHANGED <<history, pendingApprovals, interruptedState, tokenUsage,
                 agent, isInitializing, nextId, itemsDelivered, config,
                 initConfig, reported>>

\* ------------------------------------------------------- public operations
\* state.approve / state.reject on the state of the held result, once for
\* each pending record of `ps`; nothing when no result is held (the
\* `if (this._interruptedState)` of agent.ts 525, 546, 566, 587). `nth`
\* counts the verdicts the same interruption had received before.
ApplyVerdicts(log, ps, verdict) ==
  IF interruptedState = NoResult THEN log
  ELSE log \cup
       {[state |-> interruptedState.state,
         interruption |-> p.interruption, id |-> p.id, verdict |-> verdict,
         nth |-> Cardinality({v \in log : v.interruption = p.interruption})]
          : p \in ps}

\* The waiting calls once the records `ps` have been resolved.
Resolved(ps) ==
  [c \in Calls |-> [calls[c] EXCEPT !.batch = @ \ {p.id : p \in ps}]]

\* ResolveToolCall resolving the whole group of the id it is given.
ResolveToolCall_WholeGroup(interruptionId, verdict) ==
  LET hit == {p \in pendingApprovals : p.id = interruptionId}
      found == {p \in pendingApprovals :
                  \/ p \in hit
                  \/ \E q \in hit : q.groupId # Null /\ p.groupId = q.groupId}
  IN
  /\ IF found = {}
       THEN UNCHANGED <<verdicts, pendingApprovals, calls>>
       ELSE /\ verdicts' = ApplyVerdicts(verdicts, found, verdict)
            /\ pendingApprovals' = pendingApprovals \ found
            /\ calls' = Resolved(found)
  /\ agentEvent' = <<>>
  /\ usageChanged' = <<>>
  /\ UNCHANGED <<activeProvider, selectedToolNames, mcpServers, initProvider,
                 factory, creation, pluginVars>>
  /\ UNCHANGED <<history, interruptedState, controller, aborted, tokenUsage,
                 agent, isInitializing, nextId, runsMade, itemsDelivered,
                 config, initConfig, reported>>

\* ResolveToolCall reporting an id that is not pending as an error event.
ResolveToolCall_ReportsUnknown(interruptionId, verdict) ==
  LET found == {p \in pendingApprovals : p.id = interruptionId} IN
  /\ IF found = {}
       THEN /\ agentEvent' = <<ErrorEvent(Null, "No pending approval")>>
            /\ UNCHANGED <<verdicts, pendingApprovals, calls>>
       ELSE /\ verdicts' = ApplyVerdicts(verdicts, found, verdict)
            /\ pendingApprovals' = pendingApprovals \ found
            /\ calls' = Resolved(found)
            /\ agentEvent' = <<>>
  /\ usageChanged' = <<>>
  /\ UNCHANGED <<activeProvider, selectedToolNames, mcpServers, initProvider,
                 factory, creation, pluginVars>>
  /\ UNCHANGED <<history, interruptedState, controller, aborted, tokenUsage,
                 agent, isInitializing, nextId, runsMade, itemsDelivered,
                 config, initConfig, reported>>

\* ResolveToolCall without the delete of the pending record.
ResolveToolCall_KeepsRecord(interruptionId, verdict) ==
  LET found == {p \in pendingApprovals : p.id = interruptionId} IN
  /\ IF found = {}
       THEN UNCHANGED <<verdicts, pendingApprovals, calls>>
       ELSE /\ verdicts' = ApplyVerdicts(verdicts, found, verdict)
            /\ UNCHANGED <<pendingApprovals, calls>>
  /\ agentEvent' = <<>>
  /\ usageChanged' = <<>>
  /\ UNCHANGED <<activeProvider, selectedToolNames, mcpServers, initProvider,
                 factory, creation, pluginVars>>
  /\ UNCHANGED <<history, interruptedState, controller, aborted, tokenUsage,
                 agent, isInitializing, nextId, runsMade, itemsDelivered,
                 config, initConfig, reported>>

\* agent.ts 516-531 (approve) and 537-552 (reject): the body shared by both.
ResolveToolCall(interruptionId, verdict) ==
  LET found == {p \in pendingApprovals : p.id = interruptionId} IN
  /\ IF found = {}
       THEN UNCHANGED <<verdicts, pendingApprovals, calls>>
       ELSE /\ verdicts' = ApplyVerdicts(verdicts, found, verdict)
            /\ pendingApprovals' = pendingApprovals \ found
            /\ calls' = Resolved(found)
  /\ agentEvent' = <<>>
  /\ usageChanged' = <<>>
  /\ UNCHANGED <<activeProvider, selectedToolNames, mcpServers, initProvider,
                 factory, creation, pluginVars>>
  /\ UNCHANGED <<history, interruptedState, controller, aborted, tokenUsage,
                 agent, isInitializing, nextId, runsMade, itemsDelivered,
                 config, initConfig, reported>>

ApproveToolCall(interruptionId) == ResolveToolCall(interruptionId, "approve")

RejectToolCall(interruptionId) == ResolveToolCall(interruptionId, "reject")

\* agent.ts 559-573 and 580-594: the loop over interruptionIds; an id is
\* resolved when it is pending and its record carries groupId.
ResolveGroupedToolCalls(groupId, interruptionIds, verdict) ==
  LET found == {p \in pendingApprovals :
                  p.id \in interruptionIds /\ p.groupId = groupId} IN
  /\ verdicts' = ApplyVerdicts(verdicts, found, verdict)
  /\ pendingApprovals' = pendingApprovals \ found
  /\ calls' = Resolved(found)
  /\ agentEvent' = <<>>
  /\ usageChanged' = <<>>
  /\ UNCHANGED <<activeProvider, selectedToolNames, mcpServers, initProvider,
                 factory, creation, pluginVars>>
  /\ UNCHANGED <<history, interruptedState, controller, aborted, tokenUsage,
                 agent, isInitializing, nextId, runsMade, itemsDelivered,
                 config, initConfig, reported>>

ApproveGroupedToolCalls(groupId, interruptionIds) ==
  ResolveGroupedToolCalls(groupId, interruptionIds, "approve")

RejectGroupedToolCalls(groupId, interruptionIds) ==
  ResolveGroupedToolCalls(groupId, interruptionIds, "reject")

\* ClearHistory leaving the pending approvals in place.
ClearHistory_KeepsPending ==
  /\ history' = <<>>
  /\ interruptedState' = NoResult
  /\ tokenUsage' = [inputTokens |-> 0, outputTokens |-> 0]
  /\ usageChanged' = <<tokenUsage'>>
  /\ reported' = [option |-> reported.option,
                  base |-> [inputTokens |-> 0, outputTokens |-> 0],
                  sum |-> [inputTokens |-> 0, outputTokens |-> 0]]
  /\ agentEvent' = <<>>
  /\ verdicts' = KeepLive(verdicts, calls, interruptedState')
  /\ UNCHANGED <<activeProvider, selectedToolNames, mcpServers, initProvider,
                 factory, creation, pluginVars>>
  /\ UNCHANGED <<pendingApprovals, controller, aborted, agent,
                 isInitializing, calls, nextId, runsMade, itemsDelivered,
                 config, initConfig>>

\* agent.ts 407-415.
ClearHistory ==
  /\ history' = <<>>
  /\ pendingApprovals' = {}
  /\ interruptedState' = NoResult
  /\ tokenUsage' = [inputTokens |-> 0, outputTokens |-> 0]
  /\ usageChanged' = <<tokenUsage'>>
  /\ reported' = [option |-> reported.option,
                  base |-> [inputTokens |-> 0, outputTokens |-> 0],
                  sum |-> [inputTokens |-> 0, outputTokens |-> 0]]
  /\ agentEvent' = <<>>
  /\ verdicts' = KeepLive(verdicts, calls, interruptedState')
  /\ UNCHANGED <<activeProvider, selectedToolNames, mcpServers, initProvider,
                 factory, creation, pluginVars>>
  /\ UNCHANGED <<controller, aborted, agent, isInitializing, calls, nextId,
                 runsMade, itemsDelivered, config, initConfig>>

\* agent.ts 420-422: this._controller?.abort().
StopStreaming ==
  /\ aborted' = IF controller = Null THEN aborted ELSE aborted \cup {controller}
  /\ agentEvent' = <<>>
  /\ usageChanged' = <<>>
  /\ UNCHANGED <<activeProvider, selectedToolNames, mcpServers, initProvider,
                 factory, creation, pluginVars>>
  /\ UNCHANGED <<history, pendingApprovals, interruptedState, controller,
                 tokenUsage, agent, isInitializing, verdicts, calls, nextId,
                 runsMade, itemsDelivered, config, initConfig, reported>>

\* ------------------------------------------------------------- the callers
\* The arguments of the callers. An id that is not pending is looked up in
\* the map and not found, whatever it is: an id that was never issued stands
\* for all of them (stale ids, ids of other kinds).
PendingIds == {p.id : p \in pendingApprovals}

PendingGroups == {p.groupId : p \in pendingApprovals} \ {Null}

UnknownId == nextId

IdArgs == PendingIds \cup {UnknownId}

GroupArgs == PendingGroups \cup {UnknownId}

IdsOfGroup(g) == {p.id : p \in {q \in pendingApprovals : q.groupId = g}}

\* (groupId, interruptionIds) of a grouped call. The call resolves the listed
\* ids that are pending under groupId and skips every other listed id, so the
\* lists are: every non-empty part of a pending group, with and without ids
\* that are not of the group, and for every group id the ids outside it.
GroupCallArgs ==
  UNION {{<<g, ids>> : ids \in (SUBSET IdsOfGroup(g)) \ {{}}} : g \in PendingGroups}
    \cup {<<g, IdArgs>> : g \in PendingGroups}
    \cup {<<g, IdArgs \ IdsOfGroup(g)>> : g \in GroupArgs}

Next ==
  \/ \E c \in Calls : GenerateResponse(c)
  \/ \E c \in Calls : AfterInitialize(c)
  \/ \E ok \in BOOLEAN : FinishInitialize(ok)
  \/ \E c \in Calls, item \in CoreItems : StreamEvent(c, item)
  \/ \E c \in Calls : StreamThrows(c)
  \/ \E c \in Calls, k \in 0..MaxInterruptions : StreamEnds(c, k)
  \/ \E c \in Calls : Poll(c)
  \/ \E id \in IdArgs : ApproveToolCall(id)
  \/ \E id \in IdArgs : RejectToolCall(id)
  \/ \E a \in GroupCallArgs : ApproveGroupedToolCalls(a[1], a[2])
  \/ \E a \in GroupCallArgs : RejectGroupedToolCalls(a[1], a[2])
  \/ ClearHistory
  \/ StopStreaming

Spec == Init /\ [][Next]_vars

\* The run loop with the progress the scheduling gives: the 100 ms timer of
\* the wait fires (agent.ts 483-485), and a run that has been invoked ends
\* its stream or throws. What the callers do is not forced.
SpecFair ==
  /\ Spec
  /\ \A c \in Calls : WF_vars(Poll(c))
  /\ \A c \in Calls :
       WF_vars(StreamThrows(c) \/ \E k \in 0..MaxInterruptions : StreamEnds(c, k))

\* The stream scenarios: every kind of stream item, a tokenUsage option, up
\* to MaxStreamItems items; the runs end without interruptions.
NextStream ==
  \/ \E c \in Calls : GenerateResponse(c)
  \/ \E c \in Calls : AfterInitialize(c)
  \/ \E ok \in BOOLEAN : FinishInitialize(ok)
  \/ \E c \in Calls, item \in StreamItems :
       StreamEventWithin(c, item, MaxStreamItems)
  \/ \E c \in Calls : StreamThrows(c)
  \/ \E c \in Calls : StreamEnds(c, 0)
  \/ ClearHistory

SpecStream == InitStream /\ [][NextStream]_vars

\* The settings scenarios: the settings change, the agent is rebuilt, the
\* runner enforces the turn limit; approvals one id at a time.
NextConfig ==
  \/ \E c \in Calls : GenerateResponse(c)
  \/ \E c \in Calls : AfterInitialize(c)
  \/ \E ok \in BOOLEAN : FinishInitialize(ok)
  \/ InitializeAgent
  \/ \E choice \in ConfigChoices : SettingsChanged(choice)
  \/ \E c \in Calls, item \in CoreItems : StreamEvent(c, item)
  \/ \E c \in Calls : StreamThrows(c)
  \/ \E c \in Calls : TurnLimitThrows(c)
  \/ \E c \in Calls, k \in 0..1 : StreamEnds(c, k)
  \/ \E c \in Calls : Poll(c)
  \/ \E id \in PendingIds : ApproveToolCall(id)

SpecConfig == Init /\ [][NextConfig]_vars

\* The initialization scenarios: the factory connects the MCP servers of
\* the settings and initializes the manager, the provider and the selected
\* tools of the manager are set, the settings' servers change.
InitFactory ==
  /\ InitWith([inputTokens |-> 0, outputTokens |-> 0])
  /\ \E flags \in McpSettings : factory = NewFactory(McpServers(flags))
  /\ creation = NoCreation
  /\ InitPlugin

NextFactory ==
  \/ \E flags \in McpSettings : McpSettingsChanged(McpServers(flags))
  \/ CloseServers
  \/ \E ok \in BOOLEAN : ConnectServer(ok)
  \/ FinishInitializeAgents
  \/ \E ok \in BOOLEAN : FinishInitialize(ok)
  \/ \E value \in Providers : SetActiveProvider(value)
  \/ \E toolNames \in ToolSelections : SetSelectedTools(toolNames)

SpecFactory == InitFactory /\ [][NextFactory]_vars

\* The provider scenarios: a provider's factory is called with every
\* combination of the options.
InitProviders ==
  /\ InitWith([inputTokens |-> 0, outputTokens |-> 0])
  /\ factory = NewFactory(<<>>)
  /\ \E options \in ModelOptions :
       creation = [options |-> options, result |-> [kind |-> "none"]]
  /\ InitPlugin

NextProviders == CreateModel

SpecProviders == InitProviders /\ [][NextProviders]_vars

\* The hasValidConfig scenarios: the call is made on every combination of
\* what it reads.
InitValid ==
  /\ InitWith([inputTokens |-> 0, outputTokens |-> 0])
  /\ factory = NewFactory(<<>>)
  /\ creation = NoCreation
  /\ \E input \in ValidityInputs :
       validity = [input |-> input, called |-> FALSE, result |-> FALSE]
  /\ models = <<>>
  /\ command = NoCommand
  /\ renamed = NoRename

NextValid == HasValidConfigCall

SpecValid == InitValid /\ [][NextValid]_vars

\* The chat scenarios: chats are created, renamed and moved; the timer of a
\* waiting moveChat command fires, the tracker reports updates or not.
InitChats ==
  /\ InitWith([inputTokens |-> 0, outputTokens |-> 0])
  /\ factory = NewFactory(<<>>)
  /\ creation = NoCreation
  /\ InitPlugin

NextChats ==
  \/ \E name \in ChatNames \cup {NoChatName} : CreateChat(name)
  \/ \E oldName \in ChatNames, newName \in ChatNames :
       RenameChat(oldName, newName)
  \/ \E area \in {"side", "main", "elsewhere"},
        name \in ChatNames \cup {NoChatName} : MoveChat(area, name)
  \/ \E m \in 1..MaxModels : WidgetUpdated(m)
  \/ MoveChatTimer

SpecChats == InitChats /\ [][NextChats]_vars /\ WF_vars(MoveChatTimer)

\* ------------------------------------------------------------------ claims
\* The events _processRunResult emits for the items of a stream.
StreamEventTypes == {"message_start", "tool_call_start", "tool_call_complete"}

\* The events of the last step that call c emitted.
EventsOf(c, evs) == {evs[i] : i \in {j \in DOMAIN evs : evs[j].call = c}}

\* C1: while a generateResponse call awaits approval, the runner is not
\* invoked again for it and it emits no message_start, tool_call_start or
\* tool_call_complete event, as long as an interruption id of its batch has
\* not been resolved by an approve or reject operation; whatever the other
\* public operations do meanwhile.
C1_NoResumeBeforeResolved ==
  [][\A c \in Calls :
       (calls[c].pc = "wait" /\ calls[c].batch # {}) =>
         /\ calls'[c].pc # "stream"
         /\ calls'[c].run.id = calls[c].run.id \/ calls'[c].pc = "done"
         /\ \A e \in EventsOf(c, agentEvent') : e.type \notin StreamEventTypes]_vars

\* C2: single flight; at most one generateResponse call is between its start
\* and its settling.
C2_SingleFlight == Cardinality({c \in Calls : InFlight(c)}) <= 1

Verdicts == {"approve", "reject"}

\* The number of events of type t among evs.
Count(evs, t) == Cardinality({i \in DOMAIN evs : evs[i].type = t})

\* C3: a halted result with exactly one interruption gets exactly one
\* tool_approval_required event and no grouped_approval_required event; one
\* with k > 1 interruptions gets exactly one grouped_approval_required event
\* whose approvals list has k entries, one per interruption, each registered
\* in the pending set under the event's group id, and no
\* tool_approval_required event.
C3_ApprovalRequests ==
  [][\A c \in Calls :
       (calls[c].pc = "stream" /\ calls'[c].pc = "wait") =>
         LET k == calls'[c].run.interruptions
             rid == calls[c].run.id
             new == pendingApprovals' \ pendingApprovals
             evs == agentEvent'
         IN
         /\ k >= 1
         /\ Len(evs) = 1
         /\ IF k = 1
              THEN /\ Count(evs, "tool_approval_required") = 1
                   /\ Count(evs, "grouped_approval_required") = 0
                   /\ new = {[id |-> evs[1].interruptionId,
                              interruption |-> Interruption(rid, 1),
                              groupId |-> Null]}
              ELSE /\ Count(evs, "grouped_approval_required") = 1
                   /\ Count(evs, "tool_approval_required") = 0
                   /\ Len(evs[1].approvals) = k
                   /\ new = {[id |-> evs[1].approvals[i].interruptionId,
                              interruption |-> Interruption(rid, i),
                              groupId |-> evs[1].groupId] : i \in 1..k}
                   /\ Cardinality(new) = k
                   /\ evs[1].groupId # Null]_vars

\* C3 witness: a call waits on a result with two interruptions, the grouped
\* request has just been emitted and both records are pending.
C3_Witness ==
  \E c \in Calls :
    /\ calls[c].pc = "wait"
    /\ calls[c].run.interruptions = 2
    /\ Len(agentEvent) = 1
    /\ agentEvent[1].type = "grouped_approval_required"
    /\ Cardinality(IdsOfGroup(agentEvent[1].groupId)) = 2

\* C4: approveToolCall or rejectToolCall on one id of a group leaves the
\* other pending records of the group in the pending set, unchanged, and
\* applies no verdict to them.
C4_GroupFrame ==
  [][\A p \in pendingApprovals, v \in Verdicts :
       (p.groupId # Null /\ ResolveToolCall(p.id, v)) =>
         /\ \A q \in pendingApprovals :
              (q.groupId = p.groupId /\ q # p) => q \in pendingApprovals'
         /\ \A w \in verdicts' \ verdicts : w.id = p.id]_vars

\* C4 witness: one record of a group of two has received its verdict and the
\* other one is still pending under the group id.
C4_Witness ==
  \E p \in pendingApprovals :
    /\ p.groupId # Null
    /\ IdsOfGroup(p.groupId) = {p.id}
    /\ \E v \in verdicts :
         v.id # p.id /\ v.interruption.run = p.interruption.run

\* C5: approveToolCall or rejectToolCall with an id that is not pending
\* changes nothing (pending set, held result, history, token usage, verdicts,
\* the calls) and emits no event.
C5_UnknownIdNoOp ==
  [][\A id \in IdArgs \ PendingIds, v \in Verdicts :
       ResolveToolCall(id, v) =>
         /\ UNCHANGED <<pendingApprovals, interruptedState, history,
                        tokenUsage, verdicts, calls, controller>>
         /\ agentEvent' = <<>>]_vars

\* C5 witness: an approval is pending on a held result, and the last step,
\* which emitted nothing, has left both as they were.
C5_Witness ==
  /\ pendingApprovals # {}
  /\ interruptedState # NoResult
  /\ UnknownId \notin PendingIds
  /\ agentEvent = <<>>
  /\ verdicts = {}

\* C6: every interruption receives at most one verdict (never approve and
\* reject, never one twice), an id that has its verdict is no longer
\* pending, every verdict is applied to an id that was pending and is
\* removed by the same call, and approveToolCall / rejectToolCall remove
\* exactly the id they are given.
C6_OneVerdict ==
  [][/\ \A v \in verdicts' :
          /\ v.nth = 0
          /\ v.id \notin PendingIds'
          /\ \A w \in verdicts' : w.interruption = v.interruption => w = v
     /\ \A v \in verdicts' \ verdicts : v.id \in PendingIds
     /\ \A p \in pendingApprovals, v \in Verdicts :
          ResolveToolCall(p.id, v) =>
            pendingApprovals' = pendingApprovals \ {p}]_vars

\* C6 witness: of two interruptions one has been approved and the other
\* rejected, and neither id is pending any more.
C6_Witness ==
  \E v, w \in verdicts :
    /\ v.verdict = "approve"
    /\ w.verdict = "reject"
    /\ v.interruption # w.interruption
    /\ {v.id, w.id} \cap PendingIds = {}

\* C7: approveGroupedToolCalls / rejectGroupedToolCalls (groupId, ids), called
\* with ids of which at least one is pending under groupId, leave no record
\* tagged with groupId in the pending set, apply the verdict to every record
\* that was pending under groupId, and leave the records of other groups and
\* the records without a group where they are.
C7_WholeGroupResolved ==
  [][\A a \in GroupCallArgs, v \in Verdicts :
       (a[2] \cap IdsOfGroup(a[1]) # {}
          /\ ResolveGroupedToolCalls(a[1], a[2], v)) =>
         /\ \A p \in pendingApprovals' : p.groupId # a[1]
         /\ \A p \in pendingApprovals :
              p.groupId # a[1] => p \in pendingApprovals'
         /\ interruptedState # NoResult =>
              {w.id : w \in verdicts' \ verdicts} = IdsOfGroup(a[1])]_vars

\* The items of history h that a run of call c produced.
RunItemsOf(c, h) ==
  {i \in DOMAIN h : h[i].call = c /\ h[i].run # Null}

\* C8: a call whose stream was being consumed when stopStreaming aborted
\* its signal settles without a message_complete event and without
\* committing anything its run produced: the history holds the user message
\* of the call and no assistant or tool item of it.
C8_StopCommitsNothing ==
  [][\A c \in Calls :
       (/\ calls[c].pc = "stream"
        /\ calls[c].run.signal \in aborted
        /\ calls'[c].pc = "done") =>
         /\ \A e \in EventsOf(c, agentEvent') : e.type # "message_complete"
         /\ RunItemsOf(c, history') = {}]_vars

\* C9: a settling call leaves no abort controller behind, and its run's
\* history is committed only if it completed: a call that failed or was
\* cancelled leaves nothing its run produced in the history.
C9_CommitOnlyOnCompleted ==
  [][\A c \in Calls :
       (calls[c].pc # "done" /\ calls'[c].pc = "done") =>
         /\ controller' = Null
         /\ (calls'[c].outcome # "completed"
               \/ calls[c].run.signal \in aborted) =>
              RunItemsOf(c, history') = {}
         /\ history' # history =>
              (calls'[c].outcome = "completed"
                 \/ history' = Append(history, UserItem(c)))]_vars

\* C10: when the runner or the stream throws during a call, on the first or
\* on a resumed run, exactly one error event carrying the error is emitted,
\* the call settles, the history is left as it was, and nothing the failed
\* run produced is in it.
C10_ErrorSettles ==
  [][\A c \in Calls :
       (calls[c].pc = "stream" /\ calls'[c].outcome = "failed") =>
         /\ agentEvent' = <<ErrorEvent(c, "stream")>>
         /\ calls'[c].pc = "done"
         /\ history' = history
         /\ RunItemsOf(c, history') = {}]_vars

\* C10 witness: a resumed run has thrown after the first run had delivered
\* an item: the call has failed with its one error event.
C10_Witness ==
  \E c \in Calls :
    /\ calls[c].outcome = "failed"
    /\ agentEvent = <<ErrorEvent(c, "stream")>>
    /\ runsMade = 2
    /\ itemsDelivered > 0
    /\ \A d \in Calls \ {c} : calls[d].pc = "idle"
    /\ history = <<UserItem(c)>>

\* C11: a generateResponse call made while the settings resolve to no agent
\* configuration (no valid provider, no model, or a required credential that
\* is empty) never invokes the runner: it does not go from the call to a
\* stream in one step.
C11_NoRunWithoutConfig ==
  [][\A c \in Calls :
       (calls[c].pc = "idle" /\ ~config.valid) => calls'[c].pc # "stream"]_vars

\* The events of type t that call c emitted in the last step.
EventsOfType(c, evs, t) == {e \in EventsOf(c, evs) : e.type = t}

\* C12: the text of a message accumulates. For the message a call is
\* streaming, the call's buffer is the concatenation, in emission order, of
\* the fragments of the message_chunk events emitted for that message id so
\* far: a message_start opens a message with an id no call is streaming and
\* an empty buffer; a message_chunk carries the id of the message, and as
\* fullContent the buffer followed by its own fragment, which becomes the
\* buffer; nothing else changes the buffer of a message; and the
\* message_complete of the message carries its id and, as content, the
\* buffer: the fullContent of the last chunk, or the empty text when there
\* was no chunk.
C12_ChunksAccumulate ==
  [][\A c \in Calls :
       LET mid == calls[c].currentMessageId
           starts == EventsOfType(c, agentEvent', "message_start")
           chunks == EventsOfType(c, agentEvent', "message_chunk")
           completes == EventsOfType(c, agentEvent', "message_complete")
       IN
       /\ Cardinality(starts) + Cardinality(chunks) + Cardinality(completes)
            <= 1
       /\ \A e \in starts :
            /\ \A d \in Calls : calls[d].currentMessageId # e.messageId
            /\ calls'[c].currentMessageId = e.messageId
            /\ calls'[c].fullResponse = <<>>
       /\ \A e \in chunks :
            /\ mid # Null
            /\ e.messageId = mid
            /\ e.fullContent = calls[c].fullResponse \o e.chunk
            /\ calls'[c].currentMessageId = mid
            /\ calls'[c].fullResponse = e.fullContent
       /\ \A e \in completes :
            /\ mid # Null
            /\ e.messageId = mid
            /\ e.content = calls[c].fullResponse
            /\ calls'[c].currentMessageId # mid
       /\ (starts = {} /\ chunks = {} /\ mid # Null
             /\ calls'[c].currentMessageId = mid) =>
            calls'[c].fullResponse = calls[c].fullResponse]_vars

\* C12 witness: a message of two non-empty fragments has completed with the
\* two fragments as its content.
C12_Witness ==
  \E c \in Calls :
    \E e \in EventsOfType(c, agentEvent, "message_complete") :
      e.content = <<"a", "b">>

\* The calls whose run completes a model response (a response_done item is
\* processed) in the step.
RespondingCalls ==
  {c \in Calls : /\ calls[c].pc = "stream"
                 /\ calls'[c].run.id = calls[c].run.id
                 /\ Turns(calls'[c].run) > Turns(calls[c].run)}

\* C13 as stated: at every point the counters equal the tokenUsage option of
\* the constructor (else zero) plus the tokens reported since construction
\* or since the last clearHistory.
C13_SumFromInitialUsage ==
  /\ tokenUsage.inputTokens =
       reported.option.inputTokens + reported.sum.inputTokens
  /\ tokenUsage.outputTokens =
       reported.option.outputTokens + reported.sum.outputTokens

\* C13, amended: at every point the counters equal what they were last set
\* to (the tokenUsage option, else zero, at construction; zero at the last
\* clearHistory) plus the tokens reported by the response_done items
\* processed since; each response_done adds its tokens to the counters and
\* raises one tokenUsageChanged notification, which carries the counters.
C13_UsageAccumulates ==
  /\ [](/\ tokenUsage.inputTokens =
             reported.base.inputTokens + reported.sum.inputTokens
        /\ tokenUsage.outputTokens =
             reported.base.outputTokens + reported.sum.outputTokens)
  /\ [][RespondingCalls # {} =>
          /\ \E u \in Usages :
               /\ tokenUsage'.inputTokens =
                    tokenUsage.inputTokens + u.inputTokens
               /\ tokenUsage'.outputTokens =
                    tokenUsage.outputTokens + u.outputTokens
          /\ usageChanged' = <<tokenUsage'>>]_vars

\* C13 witness: constructed with a tokenUsage option, cleared, and two
\* response_done items processed since: the counters hold the two reports.
C13_Witness ==
  /\ reported.option = [inputTokens |-> 5, outputTokens |-> 7]
  /\ reported.base = [inputTokens |-> 0, outputTokens |-> 0]
  /\ reported.sum = [inputTokens |-> 2, outputTokens |-> 4]
  /\ tokenUsage = [inputTokens |-> 2, outputTokens |-> 4]
  /\ usageChanged = <<tokenUsage>>

\* C14: right after clearHistory, whatever the state before it, the history
\* is empty, both token counters are zero, no approval is pending and no
\* interrupted run state is held; the step raises one tokenUsageChanged
\* notification, which carries the zeroed usage.
C14_ClearResets ==
  [][ClearHistory =>
       /\ history' = <<>>
       /\ tokenUsage' = [inputTokens |-> 0, outputTokens |-> 0]
       /\ pendingApprovals' = {}
       /\ interruptedState' = NoResult
       /\ usageChanged' = <<[inputTokens |-> 0, outputTokens |-> 0]>>]_vars

\* C14 witness: clearHistory has just run on a manager whose call had
\* completed a model response (tokens were counted) and was awaiting
\* approvals: the call still waits for ids that are no longer pending.
C14_Witness ==
  /\ usageChanged = <<[inputTokens |-> 0, outputTokens |-> 0]>>
  /\ history = <<>>
  /\ pendingApprovals = {}
  /\ interruptedState = NoResult
  /\ \E c \in Calls : /\ calls[c].pc = "wait"
                      /\ calls[c].batch # {}
                      /\ Turns(calls[c].run) > 0

\* C15: every resume of a call gives the runner the agent the call's first
\* run was given: initializeAgent while the call streams or awaits approval
\* does not change the agent the call uses.
C15_AgentOfTheCall ==
  [][\A c \in Calls :
       (calls[c].pc = "wait" /\ calls'[c].pc = "stream") =>
         calls'[c].run.agent = calls[c].run.agent]_vars

\* C16: maxTurns bounds the round-trips of a call: the runs of a call never
\* complete more model responses than the maxTurns the call has read from
\* the settings of the active provider (or the default).
C16_TurnsBounded ==
  \A c \in Calls :
    calls[c].pc \in {"stream", "wait"} =>
      Turns(calls[c].run) <= calls[c].maxTurns

\* C17: a call that awaits approvals and whose batch has been resolved to the
\* last id leaves the wait only by resuming: it invokes the runner, once.
C17_ResumeOncePerBatch ==
  [][\A c \in Calls :
       (calls[c].pc = "wait" /\ calls[c].batch = {} /\ calls'[c].pc # "wait")
         => (calls'[c].pc = "stream" /\ runsMade' = runsMade + 1)]_vars

\* C18: the wait on the newest batch ends only through resolutions of that
\* batch: when an approve or reject operation resolves the last pending ids
\* while a call awaits approval of the halted result the manager holds, the
\* ids it resolves belong to the batch of that call, not to a superseded one.
C18_OnlyOwnBatchReleases ==
  [][\A c \in Calls :
       (/\ calls[c].pc = "wait"
        /\ calls[c].run.id = interruptedState.id
        /\ interruptedState' = interruptedState
        /\ pendingApprovals # {}
        /\ pendingApprovals' = {})
         => PendingIds \subseteq calls[c].batch]_vars

\* C19: cancellation is not a failure: a call whose stream was being consumed
\* when stopStreaming aborted its signal emits no event any more, and when
\* it settles it has not failed.
C19_CancelIsNoFailure ==
  [][\A c \in Calls :
       (calls[c].pc = "stream" /\ calls[c].run.signal \in aborted) =>
         /\ EventsOf(c, agentEvent') = {}
         /\ calls'[c].pc = "done" => calls'[c].outcome # "failed"]_vars

\* The tool_output items a stream can deliver.
ToolOutputItems == {item \in StreamItems : item.type = "tool_output"}

\* C20: a tool_output item gets exactly one event, a tool_call_complete that
\* carries the output text and whose isError is true exactly when the item
\* is a function_call_result of status 'incomplete', whatever the output
\* reads; it is no error event, and the call goes on consuming the stream.
C20_ToolErrorFlag ==
  [][\A c \in Calls, item \in ToolOutputItems :
       (/\ itemsDelivered' # itemsDelivered
        /\ calls'[c].run.produced # calls[c].run.produced
        /\ StreamEventWithin(c, item, MaxStreamItems)) =>
         /\ Len(agentEvent') = 1
         /\ agentEvent'[1].type = "tool_call_complete"
         /\ agentEvent'[1].call = c
         /\ agentEvent'[1].output = ResultText(item.output)
         /\ agentEvent'[1].isError =
              (item.rawType = "function_call_result"
                 /\ item.status = "incomplete")
         /\ calls'[c].pc = "stream"
         /\ calls'[c].run.id = calls[c].run.id]_vars

\* C20 witness: after the output of another tool, a run has delivered the
\* output of a tool that did not fail and reads like an error, and goes on.
C20_Witness ==
  \E c \in Calls :
    /\ calls[c].pc = "stream"
    /\ Len(calls[c].run.produced) >= 2
    /\ \A i \in DOMAIN calls[c].run.produced :
         calls[c].run.produced[i].kind = "tool_result"
    /\ \E e \in EventsOfType(c, agentEvent, "tool_call_complete") :
         ~e.isError /\ e.output = "Error: failed"

\* The stream items of the kinds _processRunResult does not recognise.
UnrecognisedItems == {item \in StreamItems : item.type \in UnrecognisedTypes}

\* C21: a stream item of a kind other than the recognised ones is ignored:
\* no agent event and no tokenUsageChanged notification, the message being
\* streamed and its buffer unchanged, the token usage unchanged, and no
\* exception: the call goes on consuming the same stream.
C21_UnrecognisedIgnored ==
  [][\A c \in Calls, item \in UnrecognisedItems :
       (/\ itemsDelivered' # itemsDelivered
        /\ calls[c].pc = "stream"
        /\ StreamEventWithin(c, item, MaxStreamItems)) =>
         /\ agentEvent' = <<>>
         /\ usageChanged' = <<>>
         /\ tokenUsage' = tokenUsage
         /\ calls'[c].currentMessageId = calls[c].currentMessageId
         /\ calls'[c].fullResponse = calls[c].fullResponse
         /\ calls'[c].pc = "stream"
         /\ calls'[c].run = calls[c].run
         /\ history' = history]_vars

\* C21 witness: a message has started and received a fragment, and the third
\* item of the stream was ignored: the message is still open with its
\* buffer, and the last step emitted nothing.
C21_Witness ==
  \E c \in Calls :
    /\ calls[c].pc = "stream"
    /\ calls[c].currentMessageId = 1
    /\ calls[c].fullResponse = <<"a">>
    /\ itemsDelivered = 3
    /\ agentEvent = <<>>
    /\ usageChanged = <<>>
    /\ \A d \in Calls \ {c} : calls[d].pc = "idle"

\* The servers among `enabled` whose connect() succeeded, in order.
ConnectedServers(enabled, outcome) ==
  LET f[n \in 0..Len(outcome)] ==
        IF n = 0 THEN <<>>
        ELSE IF outcome[n] THEN Append(f[n - 1], enabled[n]) ELSE f[n - 1]
  IN f[Len(outcome)]

\* C22: once the factory has completed a round of initialization, every
\* enabled server was tried whatever the connect() calls before it did, the
\* factory's connected list holds exactly the servers whose connect()
\* succeeded, in configuration order, no agent event was emitted, and the
\* registered manager has been initialized with the connected servers.
C22_ConnectFailureNonFatal ==
  factory.pc = "idle" =>
    /\ Len(factory.outcome) = Len(factory.enabled)
    /\ factory.mcpServers =
         ConnectedServers(factory.enabled, factory.outcome)
    /\ agentEvent = <<>>
    /\ mcpServers = factory.mcpServers

\* C23: a factory called with an absent or empty credential fails with an
\* error and returns no model handle when the provider's apiKeyRequirement
\* is 'required'; the factory of the provider whose credential is optional
\* returns a handle.
C23_RequiredKeyFailsFast ==
  creation.result.kind # "none" =>
    /\ (ApiKeyRequirement(creation.options.provider) = "required"
          /\ Falsy(creation.options.apiKey)) =>
         creation.result.kind = "error"
    /\ ApiKeyRequirement(creation.options.provider) = "optional" =>
         creation.result.kind = "model"

\* The errors caught at agent.ts 502: the TypeError of a null _controller,
\* the error of line 440, an error of the runner or of the stream, and the
\* runner's MaxTurnsExceededError.
ErrorCauses ==
  {"TypeError", "Failed to initialize agent", "stream", "MaxTurnsExceeded"}

\* C24: a generateResponse call never raises to its caller: a call ends only
\* by resolving, either completed with no error event, or failed with
\* exactly one error event that carries the error, whatever the error was
\* (configuration, runner or stream).
C24_NeverRaises ==
  [][\A c \in Calls :
       (calls[c].pc # "done" /\ calls'[c].pc = "done") =>
         \/ /\ calls'[c].outcome = "completed"
            /\ agentEvent' = <<>>
         \/ /\ calls'[c].outcome = "failed"
            /\ \E cause \in ErrorCauses :
                 agentEvent' = <<ErrorEvent(c, cause)>>]_vars

\* C24 witness: one call has failed on an error of its stream and the next
\* one on the configuration: each has resolved as failed, the last with its
\* one error event.
C24_Witness ==
  /\ calls[1].pc = "done"
  /\ calls[1].outcome = "failed"
  /\ calls[2].pc = "done"
  /\ calls[2].outcome = "failed"
  /\ itemsDelivered > 0
  /\ agentEvent = <<ErrorEvent(2, "Failed to initialize agent")>>

\* C25: a call that waits on a halted result resumes the runner on the state
\* of that result, and every verdict given for an interruption of that
\* result has been applied to that same state.
C25_ResumeOnJudgedSnapshot ==
  [][\A c \in Calls :
       calls[c].pc = "wait" =>
         /\ calls'[c].pc = "stream" =>
              calls'[c].run.state = calls[c].run.state
         /\ \A v \in verdicts' :
              v.interruption.run = calls[c].run.id =>
                v.state = calls[c].run.state]_vars

\* C26: a resumed runner invocation is given the same maxTurns option as the
\* invocation it continues, the first one of the call included, whether the
\* call uses tools or not.
C26_SameTurnLimitOnResume ==
  [][\A c \in Calls :
       (calls[c].pc = "wait" /\ calls'[c].pc = "stream") =>
         calls'[c].run.maxTurns = calls[c].run.maxTurns]_vars

\* C27: the events of one message id come in the order message_start, then
\* message_chunk events, then at most one message_complete. Step by step: a
\* message_start carries an id no message had before and opens it; a chunk
\* or a complete is for the id the call has open; a complete closes its id;
\* and an id that is no longer open is never open again. So no chunk comes
\* without a start before it, and none, nor a second complete, after the
\* complete of its id.
C27_MessageOrder ==
  [][\A c \in Calls :
       LET mid == calls[c].currentMessageId
           starts == EventsOfType(c, agentEvent', "message_start")
           chunks == EventsOfType(c, agentEvent', "message_chunk")
           completes == EventsOfType(c, agentEvent', "message_complete")
       IN
       /\ mid # Null => mid <= itemsDelivered
       /\ \A e \in starts :
            /\ e.messageId > itemsDelivered
            /\ calls'[c].currentMessageId = e.messageId
       /\ \A e \in chunks \cup completes :
            /\ mid # Null
            /\ e.messageId = mid
       /\ \A e \in completes :
            /\ Cardinality(completes) = 1
            /\ calls'[c].currentMessageId = Null
       /\ calls'[c].currentMessageId \notin {mid, Null} =>
            \E e \in starts : e.messageId = calls'[c].currentMessageId]_vars

\* C27 witness: a message started after another one has received a chunk and
\* then its complete.
C27_Witness ==
  \E c \in Calls :
    \E e \in EventsOfType(c, agentEvent, "message_complete") :
      /\ e.messageId = 2
      /\ e.content = <<"b">>
      /\ calls[c].currentMessageId = Null

\* C28: whenever no generateResponse call is in flight, after the calls made
\* have settled as completed, cancelled or failed, _interruptedState is
\* null.
C28_NoStaleInterruptedState ==
  (\A c \in Calls : ~InFlight(c)) => interruptedState = NoResult

\* C29: the history only grows by appending: in every step that is no
\* clearHistory, the history before is a prefix of the history after, and
\* the history is left as it is while the stream of a call is being
\* consumed (the call is consuming it before and after the step).
C29_HistoryAppendOnly ==
  [][~ClearHistory =>
       /\ Len(history') >= Len(history)
       /\ SubSeq(history', 1, Len(history)) = history
       /\ (\E c \in Calls : calls[c].pc = "stream" /\ calls'[c].pc = "stream")
            => history' = history]_vars

\* C30: once every pending initializeAgent call has finished and has built
\* an agent, the agent is the one of the activeProvider assigned last and of
\* the tools selected last, also when the assignment was made while an
\* earlier initializeAgent was in progress.
C30_AgentReflectsLatest ==
  (~isInitializing /\ agent # NoAgent) =>
    /\ agent.provider = activeProvider
    /\ agent.tools = IF ShouldUseTools(config.toolsEnabled)
                       THEN selectedToolNames ELSE <<>>

\* C31: once the initialization that follows a settings change is quiescent
\* (the factory and the manager are idle), the servers the factory tried to
\* connect are the enabled servers of the settings as of the latest change,
\* its connected list holds those of them whose connect() succeeded, and
\* the agent of the registered manager has that list; also when the change
\* was notified while _initializeAgents was running.
C31_SettingsChangeReinitializes ==
  (factory.pc = "idle" /\ ~isInitializing) =>
    /\ factory.enabled = EnabledServers(factory.configured)
    /\ factory.mcpServers =
         ConnectedServers(EnabledServers(factory.configured), factory.outcome)
    /\ agent # NoAgent => agent.mcpServers = factory.mcpServers

\* C32: hasValidConfig returns true exactly when the active provider has a
\* configuration, the configuration names a non-empty model, and there is no
\* provider registry, or the provider's apiKeyRequirement is not 'required',
\* or the apiKey of the configuration is non-empty; and the call changes
\* nothing of the manager.
C32_HasValidConfig ==
  [][HasValidConfigCall =>
       LET input == validity.input IN
       /\ validity'.result =
            (/\ input.present
             /\ input.model \notin {Absent, ""}
             /\ \/ ~input.hasRegistry
                \/ input.provider \notin ProviderIds
                \/ ApiKeyRequirement(input.provider) # "required"
                \/ input.apiKey \notin {Absent, ""})
       /\ UNCHANGED <<history, pendingApprovals, interruptedState, controller,
                      tokenUsage, agent, isInitializing, config,
                      activeProvider, selectedToolNames, mcpServers>>]_vars

\* C32 witness: the call has returned true for a provider that requires a
\* key and a configuration without one, the manager having no registry.
C32_Witness ==
  /\ validity.called
  /\ validity.result
  /\ validity.input.provider = "anthropic"
  /\ validity.input.apiKey = ""
  /\ ~validity.input.hasRegistry

\* C33: when stopStreaming has aborted the signal of a call that waits for
\* approvals, the call settles, whether or not an approve, reject or group
\* operation follows.
C33_StopEndsTheWait ==
  \A c \in Calls :
    (calls[c].pc = "wait" /\ calls[c].run.signal \in aborted)
      ~> (calls[c].pc = "done")

\* C34: the moveChat command always settles: a command that waits for the
\* tracker's update returns, through the timer when the tracker reports no
\* update of the previous model.
C34_MoveChatSettles ==
  (command.pc = "waiting") ~> (command.pc = "done")

\* No two registered chat models have the same name.
UniqueNames(registered) ==
  \A i \in DOMAIN registered, j \in DOMAIN registered :
    registered[i] = registered[j] => i = j

\* C35: renameChat(oldName, newName) returns true exactly when a model named
\* oldName exists and none named newName does, and then that model, and
\* only it, has the new name; otherwise it returns false and no name has
\* changed. The names of the registered models stay distinct.
C35_RenameChat ==
  [][\A oldName \in ChatNames, newName \in ChatNames :
       RenameChat(oldName, newName) =>
         LET exists == \E i \in DOMAIN models : models[i] = oldName
             taken == \E i \in DOMAIN models : models[i] = newName
         IN
         /\ renamed'.result = (exists /\ ~taken)
         /\ renamed'.result =>
              /\ DOMAIN models' = DOMAIN models
              /\ \A i \in DOMAIN models :
                   models'[i] = IF models[i] = oldName THEN newName
                                                        ELSE models[i]
         /\ ~renamed'.result => models' = models
         /\ UniqueNames(models) => UniqueNames(models')]_vars

\* C35 witness: a rename has returned true with two models registered: the
\* first one has the new name, the other one has kept its name.
C35_Witness ==
  /\ renamed.called
  /\ renamed.result
  /\ Len(models) = 2
  /\ models[1] = ChatName("b")
  /\ models[2] = [text |-> "a", n |-> 1]

\* C36: the manager holds an abort controller exactly while a
\* generateResponse call is in flight; stopStreaming aborts the signal that
\* the runner invocations of every call in flight were given, and has no
\* effect when no call is in flight.
C36_ControllerWhileInFlight ==
  [][/\ (controller' # Null) <=>
          (\E c \in Calls : calls'[c].pc \in {"init", "stream", "wait"})
     /\ StopStreaming =>
          /\ \A c \in Calls :
               (InFlight(c) /\ calls[c].run.signal # Null) =>
                 calls[c].run.signal \in aborted'
          /\ (\A c \in Calls : ~InFlight(c)) => aborted' = aborted]_vars

\* C37: whenever no generateResponse call is in flight, the pending-approval
\* set is empty.
C37_NoPendingWhenIdle ==
  (\A c \in Calls : ~InFlight(c)) => pendingApprovals = {}

\* C37 witness: a call that had halted on a group of interruptions has
\* resumed once the pending set was empty and has completed; no call is in
\* flight and nothing is pending.
C37_Witness ==
  /\ \A c \in Calls : ~InFlight(c)
  /\ calls[1].outcome = "completed"
  /\ runsMade = 2
  /\ nextId > 2
  /\ pendingApprovals = {}

\* C38: whenever an approve or reject operation removes an id from the
\* pending set, the verdict has been applied to the state of the halted
\* result that surfaced the interruption, the one the waiting call will
\* resume on, and to no other state.
C38_VerdictOnItsSnapshot ==
  [][~ClearHistory =>
       \A p \in pendingApprovals \ pendingApprovals' :
         \E c \in Calls :
           /\ calls[c].pc = "wait"
           /\ calls[c].run.id = p.interruption.run
           /\ \E v \in verdicts' \ verdicts :
                v.interruption = p.interruption
           /\ \A v \in verdicts' \ verdicts :
                v.interruption = p.interruption =>
                  v.state = calls[c].run.state]_vars

\* C39: a clearHistory is not undone: in a step in which a call that was in
\* flight settles or goes on, the history gets no item back that was in it
\* before a clearHistory made during that call. Items carry the call and
\* the run they come from, so: once clearHistory has emptied the history
\* while call c was in flight, the history holds no item that call c had
\* put into it, or had given its run as input, before.
C39_ClearNotUndone ==
  [][\A c \in Calls :
       (InFlight(c) /\ history = <<>> /\ calls[c].run.input # <<>>) =>
         \A i \in DOMAIN history' :
           \A j \in DOMAIN calls[c].run.input :
             history'[i] # calls[c].run.input[j]]_vars

====
